---- MODULE Spec2Model ----
(***************************************************************************)
(* Model of Sudoko.py: parse_grid, SudokuBFS.__init__,                     *)
(* SudokuBFS._choose_cell_with_fewest_candidates and SudokuBFS.solve.      *)
(*                                                                         *)
(* Python lists are sequences; At(list, i) reads the element at the        *)
(* 0-based index i, as the code does.  Bitmasks are integers, and the      *)
(* bitwise operators are computed on the 9 low bits the code uses.         *)
(***************************************************************************)
EXTENDS Integers, Sequences, FiniteSets, TLC

VARIABLES grid,      \* the text rows handed to parse_grid
          pc,        \* position in __main__: parse, init, solve, loop, done
          cells,     \* self.start: the flat cell list
          row_used,  \* self.row_used
          col_used,  \* self.col_used
          box_used,  \* self.box_used
          q,         \* the deque of solve()
          result,    \* what solve() returned: a board, or None
          outcome,   \* how the run ended
          run,       \* 1: the run on the input, 2: the run on the first output
          first,     \* the board the first run returned
          given,     \* the cell list the constructor of the current run was given
          popped     \* number of q.popleft() calls in the current run

vars == <<grid, pc, cells, row_used, col_used, box_used, q, result, outcome,
          run, first, given, popped>>

\* Python's None, and the outcome of a call that raises: no list of the
\* program equals it
None == <<-1>>

\* ---------------------------------------------------------------- lists

At(list, i) == list[i + 1]

SetAt(list, i, v) == [list EXCEPT ![i + 1] = v]

\* F of the value of v, with v evaluated once: the value a loop carries from
\* one pass to the next
Then(v, F(_)) == CHOOSE y \in {F(x) : x \in {v}} : TRUE

Zeros9 == [i \in 1..9 |-> 0]

\* ---------------------------------------------------------------- bit masks

\* bit(d) = 1 << (d - 1)
bit(d) == 2 ^ (d - 1)

\* mask & m, as a truth value, for a one-bit m
And1(mask, m) == (mask \div m) % 2 = 1

RECURSIVE OrFrom(_, _, _)
OrFrom(a, b, d) ==
    IF d > 9 THEN 0
    ELSE (IF And1(a, bit(d)) \/ And1(b, bit(d)) THEN bit(d) ELSE 0)
         + OrFrom(a, b, d + 1)

\* a | b on 9-bit masks
BitOr(a, b) == Then(a, LAMBDA x : Then(b, LAMBDA y : OrFrom(x, y, 1)))

\* (~used) & 0x1FF
KeepNineBits(used) == 511 - used

\* int.bit_count() on a 9-bit mask: the number of its bits that are set
bit_count(mask) == Cardinality({d \in 1..9 : And1(mask, bit(d))})

\* ---------------------------------------------------------------- geometry

\* divmod(idx, 9)
RowOf(idx) == idx \div 9

ColOf(idx) == idx % 9

box_index(r, c) == (r \div 3) * 3 + (c \div 3)

BoxOf(idx) == box_index(RowOf(idx), ColOf(idx))

\* ---------------------------------------------------------------- parse_grid

\* The characters of the model: the ASCII digits, the blank marker '.', a
\* letter, a space, and three non-ASCII characters for which str.isdigit()
\* is true: U+0663 ARABIC-INDIC DIGIT THREE, U+0660 ARABIC-INDIC DIGIT ZERO
\* and U+00B2 SUPERSCRIPT TWO.
AsciiDigits == {"0", "1", "2", "3", "4", "5", "6", "7", "8", "9"}

Chars == AsciiDigits \cup {".", "x", " ", "u0663", "u0660", "u00B2"}

\* ch in "0."
InZeroDot(ch) == ch \in {"0", "."}

\* str.isdigit(): true of every character whose Unicode property Numeric_Type
\* is Digit or Decimal
isdigit(ch) == ch \in AsciiDigits \cup {"u0663", "u0660", "u00B2"}

ValueError == -1

\* int(ch): the value of a Unicode decimal digit; U+00B2 is a digit but not
\* a decimal one, int() raises ValueError on it
int(ch) ==
    CASE ch = "0" -> 0 [] ch = "1" -> 1 [] ch = "2" -> 2 [] ch = "3" -> 3
      [] ch = "4" -> 4 [] ch = "5" -> 5 [] ch = "6" -> 6 [] ch = "7" -> 7
      [] ch = "8" -> 8 [] ch = "9" -> 9
      [] ch = "u0663" -> 3 [] ch = "u0660" -> 0
      [] OTHER -> ValueError

\* the body of the inner loop of parse_grid: the value appended for ch, or
\* ValueError
ParseChar(ch) ==
    IF InZeroDot(ch) THEN 0
    ELSE IF isdigit(ch) /\ ch # "0"
         THEN LET d == int(ch)
              IN  IF d = ValueError THEN ValueError
                  ELSE IF ~(1 <= d /\ d <= 9) THEN ValueError
                  ELSE d
         ELSE ValueError

\* assert len(grid) == 9 and all(len(r) == 9 for r in grid)
ShapeOk(g) == Len(g) = 9 /\ \A i \in 1..Len(g) : Len(g[i]) = 9

\* the inner loop "for ch in r" from character j on: vals with the values
\* appended, or None when a character raises
RECURSIVE ParseRow(_, _, _)
ParseRow(r, j, vals) ==
    IF j > Len(r) THEN vals
    ELSE IF ParseChar(r[j]) = ValueError THEN None
    ELSE ParseRow(r, j + 1, Append(vals, ParseChar(r[j])))

\* the outer loop "for r in grid" from row i on
RECURSIVE ParseFrom(_, _, _)
ParseFrom(g, i, vals) ==
    IF vals = None \/ i > Len(g) THEN vals
    ELSE Then(ParseRow(g[i], 1, vals), LAMBDA v : ParseFrom(g, i + 1, v))

\* parse_grid(grid): the list of values, or None when it raises
\* (AssertionError for the shape, ValueError for a character)
parse_grid(g) == IF ~ShapeOk(g) THEN None ELSE ParseFrom(g, 1, <<>>)

\* ---------------------------------------------------------------- __init__

\* Duplicate without the test of the box
DuplicateNoBox(ru, cu, bu, idx, m) ==
    \/ And1(At(ru, RowOf(idx)), m)
    \/ And1(At(cu, ColOf(idx)), m)

\* (self.row_used[r] & m) or (self.col_used[c] & m) or (self.box_used[b] & m)
Duplicate(ru, cu, bu, idx, m) ==
    \/ And1(At(ru, RowOf(idx)), m)
    \/ And1(At(cu, ColOf(idx)), m)
    \/ And1(At(bu, BoxOf(idx)), m)

\* a | m for a one-bit m
OrBit(a, m) == IF And1(a, m) THEN a ELSE a + m

\* used[k] |= m, where m is bit(v)
Mark(used, k, m) == [used EXCEPT ![k + 1] = OrBit(@, m)]

\* the loop of __init__ over the indices idx .. stop - 1: the three mask
\* lists, or None when the constructor raises ValueError("Invalid puzzle: ...")
RECURSIVE InitFrom(_, _, _, _, _, _)
InitFrom(cs, idx, stop, ru, cu, bu) ==
    IF idx >= stop THEN <<ru, cu, bu>>
    ELSE LET v == At(cs, idx)
         IN  IF v = 0 THEN InitFrom(cs, idx + 1, stop, ru, cu, bu)
             ELSE IF Duplicate(ru, cu, bu, idx, bit(v)) THEN None
             ELSE Then(<<Mark(ru, RowOf(idx), bit(v)),
                         Mark(cu, ColOf(idx), bit(v)),
                         Mark(bu, BoxOf(idx), bit(v))>>,
                       LAMBDA m : InitFrom(cs, idx + 1, stop, m[1], m[2], m[3]))

\* the same loop, taken nine indices at a time
RECURSIVE InitRows(_, _, _)
InitRows(cs, r, masks) ==
    IF masks = None \/ r >= 9 THEN masks
    ELSE Then(InitFrom(cs, 9 * r, 9 * r + 9, masks[1], masks[2], masks[3]),
              LAMBDA m : InitRows(cs, r + 1, m))

\* SudokuBFS(cells): the masks of the new object, or None when it raises
Construct(cs) ==
    IF Len(cs) # 81 THEN None ELSE InitRows(cs, 0, <<Zeros9, Zeros9, Zeros9>>)

\* ---------------------------------------------------------------- cell choice

\* used = row_used[r] | col_used[c] | box_used[b]
Used(ru, cu, bu, idx) ==
    BitOr(BitOr(At(ru, RowOf(idx)), At(cu, ColOf(idx))), At(bu, BoxOf(idx)))

\* the scan of _choose_cell_with_fewest_candidates over the indices
\* idx .. stop - 1: <<returned, best_idx, best_mask, best_count>>, where
\* returned says that the scan has ended (by "return idx, 0" or by "break")
RECURSIVE ChooseFrom(_, _, _, _, _, _, _, _, _)
ChooseFrom(board, ru, cu, bu, idx, stop, best_idx, best_mask, best_count) ==
    IF idx >= stop THEN <<FALSE, best_idx, best_mask, best_count>>
    ELSE IF At(board, idx) # 0
         THEN ChooseFrom(board, ru, cu, bu, idx + 1, stop,
                         best_idx, best_mask, best_count)
    ELSE Then(KeepNineBits(Used(ru, cu, bu, idx)), LAMBDA cand_mask :
             IF cand_mask = 0 THEN <<TRUE, idx, 0, best_count>>
             ELSE Then(bit_count(cand_mask), LAMBDA count :
                  IF count < best_count
                  THEN IF count = 1 THEN <<TRUE, idx, cand_mask, count>>
                       ELSE ChooseFrom(board, ru, cu, bu, idx + 1, stop,
                                       idx, cand_mask, count)
                  ELSE ChooseFrom(board, ru, cu, bu, idx + 1, stop,
                                  best_idx, best_mask, best_count)))

\* the same scan, taken nine indices at a time
RECURSIVE ChooseRows(_, _, _, _, _, _)
ChooseRows(board, ru, cu, bu, r, best) ==
    IF best[1] \/ 9 * r >= Len(board) THEN best
    ELSE Then(ChooseFrom(board, ru, cu, bu, 9 * r, 9 * r + 9,
                         best[2], best[3], best[4]),
              LAMBDA b : ChooseRows(board, ru, cu, bu, r + 1, b))

\* _choose_cell_with_fewest_candidates: <<cell_index, candidate_mask>>
choose_cell(board, ru, cu, bu) ==
    Then(ChooseRows(board, ru, cu, bu, 0, <<FALSE, -1, 0, 10>>),
         LAMBDA best : <<best[2], best[3]>>)

\* ---------------------------------------------------------------- solve

State(board, ru, cu, bu) ==
    [board |-> board, row_used |-> ru, col_used |-> cu, box_used |-> bu]

\* AllAssigned with any() for all()
AnyAssigned(board) == \E i \in 1..Len(board) : board[i] # 0

\* AllAssigned with v == 0 for v != 0
AllBlank(board) == \A i \in 1..Len(board) : board[i] = 0

\* all(v != 0 for v in start_board)
AllAssigned(board) == \A i \in 1..Len(board) : board[i] # 0

\* NextBoard writing one cell too far
NextBoardOffByOne(board, idx, d) == SetAt(board, (idx + 1) % 81, d)

\* NextBoard without the assignment
NextBoardNoWrite(board, idx, d) == board

\* next_board = board[:]; next_board[idx] = d
NextBoard(board, idx, d) == SetAt(board, idx, d)

\* Child without nb[b] |= m
ChildNoBox(s, idx, d) ==
    State(SetAt(s.board, idx, d),
          Mark(s.row_used, RowOf(idx), bit(d)),
          Mark(s.col_used, ColOf(idx), bit(d)),
          s.box_used)

\* the child state of s for digit d at cell idx, after nr[r] |= m, nc[c] |= m,
\* nb[b] |= m
Child(s, idx, d) ==
    State(NextBoard(s.board, idx, d),
          Mark(s.row_used, RowOf(idx), bit(d)),
          Mark(s.col_used, ColOf(idx), bit(d)),
          Mark(s.box_used, BoxOf(idx), bit(d)))

\* the loop "for d in range(1, 10)" of solve from digit d on: the states it
\* appends to q, in the order it appends them
RECURSIVE ChildrenFrom(_, _, _, _)
ChildrenFrom(s, idx, cand_mask, d) ==
    IF d >= 10 THEN <<>>
    ELSE IF ~And1(cand_mask, bit(d)) THEN ChildrenFrom(s, idx, cand_mask, d + 1)
    ELSE IF Duplicate(s.row_used, s.col_used, s.box_used, idx, bit(d))
         THEN ChildrenFrom(s, idx, cand_mask, d + 1)
    ELSE <<Child(s, idx, d)>> \o ChildrenFrom(s, idx, cand_mask, d + 1)

\* Children with range(2, 10)
ChildrenFromTwo(s, idx, cand_mask) == ChildrenFrom(s, idx, cand_mask, 2)

Reverse(seq) == [i \in 1..Len(seq) |-> seq[Len(seq) + 1 - i]]

\* Children with the digits in descending order
ChildrenDescending(s, idx, cand_mask) == Reverse(ChildrenFrom(s, idx, cand_mask, 1))

\* for d in range(1, 10): ... q.append(...)
Children(s, idx, cand_mask) == ChildrenFrom(s, idx, cand_mask, 1)

\* self._choose_cell_with_fewest_candidates(board, row_used, col_used, box_used)
Chosen(s) == choose_cell(s.board, s.row_used, s.col_used, s.box_used)

\* ---------------------------------------------------------------- inputs

\* The solution of the puzzle of __main__, row-major.
Base == <<
    5, 3, 4, 6, 7, 8, 9, 1, 2,
    6, 7, 2, 1, 9, 5, 3, 4, 8,
    1, 9, 8, 3, 4, 2, 5, 6, 7,
    8, 5, 9, 7, 6, 1, 4, 2, 3,
    4, 2, 6, 8, 5, 3, 7, 9, 1,
    7, 1, 3, 9, 2, 4, 8, 5, 6,
    9, 6, 1, 5, 3, 7, 2, 8, 4,
    2, 8, 7, 4, 1, 9, 6, 3, 5,
    3, 4, 5, 2, 8, 6, 1, 7, 9 >>

\* The puzzle of __main__.
Puzzle == <<
    << "5", "3", ".", ".", "7", ".", ".", ".", "." >>,
    << "6", ".", ".", "1", "9", "5", ".", ".", "." >>,
    << ".", "9", "8", ".", ".", ".", ".", "6", "." >>,
    << "8", ".", ".", ".", "6", ".", ".", ".", "3" >>,
    << "4", ".", ".", "8", ".", "3", ".", ".", "1" >>,
    << "7", ".", ".", ".", "2", ".", ".", ".", "6" >>,
    << ".", "6", ".", ".", ".", ".", "2", "8", "." >>,
    << ".", ".", ".", "4", "1", "9", ".", ".", "5" >>,
    << ".", ".", ".", ".", "8", ".", ".", "7", "9" >> >>

DigitChars == <<"1", "2", "3", "4", "5", "6", "7", "8", "9">>

CharOf(v) == IF v = 0 THEN "." ELSE DigitChars[v]

\* the 9 text rows of a cell list
ToText(cs) == [i \in 1..9 |-> [j \in 1..9 |-> CharOf(cs[(i - 1) * 9 + j])]]

\* The cells the first family of inputs varies, as <<index, other digit>>:
\* each of the first NumWindow of them holds its digit of Base, or is blank,
\* or holds the other digit.  Cells 32, 35, 41, 44 are the corners of a
\* rectangle of Base holding 1 3 / 3 1.
Window == <<
    <<32, 3>>, <<44, 3>>, <<42, 1>>, <<78, 7>>, <<35, 1>>, <<41, 1>> >>

NumWindow == 5

WindowAt(idx) == {k \in 1..NumWindow : Window[k][1] = idx}

CellsOf(ch) ==
    [i \in 1..81 |->
        IF WindowAt(i - 1) = {} THEN Base[i]
        ELSE LET k == CHOOSE k \in WindowAt(i - 1) : TRUE
             IN  CASE ch[k] = 0 -> Base[i]
                   [] ch[k] = 1 -> 0
                   [] OTHER -> Window[k][2]]

WindowCells == {CellsOf(ch) : ch \in [1..NumWindow -> {0, 1, 2}]}

\* The second family: Base with a set of cells blanked, and the same with
\* one of these cells holding any digit.
HoleSets == { {3, 4, 5, 39, 40, 57, 59, 61, 76, 79},
              {0, 7, 18, 24, 38, 42, 44, 46, 52, 53, 55, 56, 78, 79} }

Blanked(H) == [i \in 1..81 |-> IF i - 1 \in H THEN 0 ELSE Base[i]]

HoleCells ==
    {Blanked(H) : H \in HoleSets}
    \cup UNION {{SetAt(Blanked(H), h, d) : h \in H, d \in 1..9} : H \in HoleSets}

\* The third family: the blank board with the digit 5 in two cells that
\* share a row, a column or a box.
PairCells == {0, 8, 10, 20, 36, 72}

SameUnit(i, j) == RowOf(i) = RowOf(j) \/ ColOf(i) = ColOf(j) \/ BoxOf(i) = BoxOf(j)

Blank == [i \in 1..81 |-> 0]

PairBoards ==
    {SetAt(SetAt(Blank, p[1], 5), p[2], 5) :
        p \in {pr \in PairCells \X PairCells : pr[1] < pr[2] /\ SameUnit(pr[1], pr[2])}}

PuzzleTexts == {ToText(cs) : cs \in WindowCells \cup HoleCells \cup PairBoards}

\* grids of the wrong shape, and grids with one character replaced
Solved == ToText(Base)

VariedCells == {<<1, 1>>, <<5, 5>>, <<9, 9>>}

\* the first three rows of the puzzle of __main__ over the solved rows 4-9
Puzzle3 == SubSeq(Puzzle, 1, 3) \o SubSeq(Solved, 4, 9)

OtherTexts ==
    {Puzzle3, <<>>, SubSeq(Solved, 1, 8), Append(Solved, Solved[1])}
    \cup {[Solved EXCEPT ![i] = SubSeq(Solved[i], 1, 8)] : i \in {1, 9}}
    \cup {[Solved EXCEPT ![i] = Append(Solved[i], "1")] : i \in {1, 9}}
    \cup {[Solved EXCEPT ![p[1]][p[2]] = c] : p \in VariedCells, c \in Chars}

\* ---------------------------------------------------------------- __main__

Init ==
    /\ grid \in PuzzleTexts \cup OtherTexts
    /\ pc = "parse"
    /\ cells = None
    /\ row_used = Zeros9
    /\ col_used = Zeros9
    /\ box_used = Zeros9
    /\ q = <<>>
    /\ result = None
    /\ outcome = "running"
    /\ run = 1
    /\ first = None
    /\ given = None
    /\ popped = 0

\* cells = parse_grid(puzzle) returns
ParseOk ==
    /\ pc = "parse"
    /\ \E vals \in {parse_grid(grid)} :
           /\ vals # None
           /\ cells' = vals
    /\ pc' = "init"
    /\ UNCHANGED <<grid, row_used, col_used, box_used, q, result, outcome, run,
                   first, given, popped>>

\* cells = parse_grid(puzzle) raises
ParseFail ==
    /\ pc = "parse"
    /\ parse_grid(grid) = None
    /\ pc' = "done"
    /\ outcome' = "MalformedInput"
    /\ UNCHANGED <<grid, cells, row_used, col_used, box_used, q, result, run,
                   first, given, popped>>

\* solver = SudokuBFS(cells) returns
InitOk ==
    /\ pc = "init"
    /\ \E masks \in {Construct(cells)} :
           /\ masks # None
           /\ row_used' = masks[1]
           /\ col_used' = masks[2]
           /\ box_used' = masks[3]
    /\ given' = cells
    /\ pc' = "solve"
    /\ UNCHANGED <<grid, cells, q, result, outcome, run, first, popped>>

\* solver = SudokuBFS(cells) raises
InitFail ==
    /\ pc = "init"
    /\ Construct(cells) = None
    /\ pc' = "done"
    /\ outcome' = "InvalidPuzzle"
    /\ UNCHANGED <<grid, cells, row_used, col_used, box_used, q, result, run,
                   first, given, popped>>

\* solve(): the quick check returns start_board
SolveQuick ==
    /\ pc = "solve"
    /\ AllAssigned(cells)
    /\ result' = cells
    /\ outcome' = "solved"
    /\ pc' = "done"
    /\ UNCHANGED <<grid, cells, row_used, col_used, box_used, q, run, first,
                   given, popped>>

\* solve(): q.append((start_board, start_row, start_col, start_box))
SolveSeed ==
    /\ pc = "solve"
    /\ ~AllAssigned(cells)
    /\ q' = <<State(cells, row_used, col_used, box_used)>>
    /\ pc' = "loop"
    /\ UNCHANGED <<grid, cells, row_used, col_used, box_used, result, outcome,
                   run, first, given, popped>>

\* one iteration of "while q" that returns board
LoopSolved ==
    /\ pc = "loop"
    /\ q # <<>>
    /\ Chosen(Head(q))[1] = -1
    /\ q' = Tail(q)
    /\ popped' = popped + 1
    /\ result' = Head(q).board
    /\ outcome' = "solved"
    /\ pc' = "done"
    /\ UNCHANGED <<grid, cells, row_used, col_used, box_used, run, first, given>>

\* one iteration of "while q" that skips a dead state
LoopDead ==
    /\ pc = "loop"
    /\ q # <<>>
    /\ \E sel \in {Chosen(Head(q))} : sel[1] # -1 /\ sel[2] = 0
    /\ q' = Tail(q)
    /\ popped' = popped + 1
    /\ UNCHANGED <<grid, pc, cells, row_used, col_used, box_used, result,
                   outcome, run, first, given>>

\* one iteration of "while q" that enqueues the child states
LoopExpand ==
    /\ pc = "loop"
    /\ q # <<>>
    /\ \E sel \in {Chosen(Head(q))} :
           /\ sel[1] # -1
           /\ sel[2] # 0
           /\ q' = Tail(q) \o Children(Head(q), sel[1], sel[2])
    /\ popped' = popped + 1
    /\ UNCHANGED <<grid, pc, cells, row_used, col_used, box_used, result,
                   outcome, run, first, given>>

\* "while q" ends: return None
LoopExit ==
    /\ pc = "loop"
    /\ q = <<>>
    /\ result' = None
    /\ outcome' = "unsolvable"
    /\ pc' = "done"
    /\ UNCHANGED <<grid, cells, row_used, col_used, box_used, q, run, first,
                   given, popped>>

\* the solved board is fed back: SudokuBFS(solved).solve()
Again ==
    /\ pc = "done"
    /\ outcome = "solved"
    /\ run = 1
    /\ run' = 2
    /\ first' = result
    /\ cells' = result
    /\ pc' = "init"
    /\ q' = <<>>
    /\ result' = None
    /\ outcome' = "running"
    /\ popped' = 0
    /\ UNCHANGED <<grid, row_used, col_used, box_used, given>>

Next ==
    \/ ParseOk \/ ParseFail
    \/ InitOk \/ InitFail
    \/ SolveQuick \/ SolveSeed
    \/ LoopSolved \/ LoopDead \/ LoopExpand \/ LoopExit
    \/ Again

Spec == Init /\ [][Next]_vars

\* solve() runs to its end: no step is delayed forever
FairSpec == Spec /\ WF_vars(Next)

\* ---------------------------------------------------------------- the rules of Sudoku

Cells81 == 0..80

RowUnit(r) == {9 * r + c : c \in 0..8}

ColUnit(c) == {9 * r + c : r \in 0..8}

BoxUnit(a, b) == {9 * (3 * a + i) + 3 * b + j : i \in 0..2, j \in 0..2}

Units ==
    {RowUnit(r) : r \in 0..8} \cup {ColUnit(c) : c \in 0..8}
    \cup {BoxUnit(a, b) : a \in 0..2, b \in 0..2}

PeersOf == [i \in Cells81 |-> UNION {u \in Units : i \in u} \ {i}]

Blanks(board) == {i \in Cells81 : At(board, i) = 0}

\* no blank cell, and every unit holds each digit exactly once
ValidComplete(board) ==
    /\ Len(board) = 81
    /\ \A i \in Cells81 : At(board, i) \in 1..9
    /\ \A u \in Units : \A d \in 1..9 :
          Cardinality({i \in u : At(board, i) = d}) = 1

\* two assigned cells of one unit hold the same digit
HasDuplicate(board) ==
    \E i \in Cells81 : At(board, i) # 0 /\ \E j \in PeersOf[i] : At(board, j) = At(board, i)

\* board agrees with the assigned cells of input
Extends(board, input) ==
    \A i \in Cells81 : At(input, i) # 0 => At(board, i) = At(input, i)

\* some assignment of the blank cells, tried cell by cell in row-major order,
\* is free of duplicates
RECURSIVE Fillable(_)
Fillable(board) ==
    IF Blanks(board) = {} THEN TRUE
    ELSE LET i == CHOOSE i \in Blanks(board) : \A j \in Blanks(board) : i <= j
         IN  \E d \in 1..9 :
                /\ \A j \in PeersOf[i] : At(board, j) # d
                /\ Fillable(SetAt(board, i, d))

\* some complete valid board extends board
Completable(board) == ~HasDuplicate(board) /\ Fillable(board)

\* ---------------------------------------------------------------- C1

C2_PrefilledPreserved ==
    /\ \A k \in 1..Len(q) : Extends(q[k].board, given)
    /\ (pc = "done" /\ outcome = "solved") => Extends(result, given)

\* a returned board that differs from the input only in the cells that were
\* blank, after a search
C2_Witness ==
    /\ pc = "done" /\ outcome = "solved" /\ run = 1
    /\ popped > 2
    /\ result # given
    /\ \E i \in Cells81 : At(given, i) # 0
    /\ Extends(result, given)

\* ---------------------------------------------------------------- C3

\* C3: solve() returns None only when no complete valid board extends the
\* input, and as long as the input has a completion the frontier holds a
\* state that has one.
C3_NoneOnlyIfUnsolvable ==
    /\ (pc = "done" /\ outcome = "unsolvable") => ~Completable(given)
    /\ (pc = "loop" /\ Completable(given)) =>
          \E k \in 1..Len(q) : Completable(q[k].board)

\* a dead state is about to be abandoned in the search of a puzzle that has
\* a completion
C3_Witness ==
    /\ pc = "loop" /\ q # <<>>
    /\ Completable(given)
    /\ Chosen(Head(q))[1] # -1
    /\ Chosen(Head(q))[2] = 0
    /\ Len(q) > 1

\* ---------------------------------------------------------------- C4

\* C4: when two assigned cells of one row, column or box of the cell array
\* hold the same digit, the constructor raises, no solver object exists and
\* the search is never reached.
C4_DuplicateRejected ==
    (pc \notin {"parse", "init"} /\ cells # None /\ HasDuplicate(cells)) =>
        /\ pc = "done"
        /\ outcome = "InvalidPuzzle"
        /\ given = None
        /\ row_used = Zeros9 /\ col_used = Zeros9 /\ box_used = Zeros9
        /\ q = <<>> /\ popped = 0 /\ result = None

\* a rejected board whose only duplicate is in a column, on an otherwise
\* blank board
C4_Witness ==
    /\ pc = "done" /\ outcome = "InvalidPuzzle"
    /\ cells = SetAt(SetAt(Blank, 0, 5), 36, 5)

\* ---------------------------------------------------------------- C5

PuzzleChars == {"1", "2", "3", "4", "5", "6", "7", "8", "9", ".", "0"}

\* 9 rows of 9 characters, each a digit 1-9 or a blank marker
WellFormed(g) ==
    /\ Len(g) = 9
    /\ \A i \in 1..Len(g) : Len(g[i]) = 9 /\ \A j \in 1..Len(g[i]) : g[i][j] \in PuzzleChars

\* the value of the character of cell k (1-based, row-major) of a 9 x 9 grid
ValueAt(g, k) ==
    LET ch == g[((k - 1) \div 9) + 1][((k - 1) % 9) + 1]
    IN  IF ch \in {".", "0"} THEN 0 ELSE CHOOSE d \in 1..9 : DigitChars[d] = ch

\* C5: parse_grid fails, and nothing is constructed or solved, whenever the
\* input has not exactly 9 rows of exactly 9 characters out of '1'-'9', '.',
\* '0'; and on every other input it returns the 81 values in row-major
\* order, 0 for a blank marker.
C5_ParseValidates ==
    /\ (pc # "parse" /\ ~WellFormed(grid)) =>
          /\ pc = "done" /\ outcome = "MalformedInput"
          /\ cells = None /\ given = None /\ q = <<>> /\ popped = 0
    /\ (pc # "parse" /\ WellFormed(grid)) =>
          /\ outcome # "MalformedInput"
          /\ run = 1 => /\ Len(cells) = 81
                        /\ \A k \in 1..81 : cells[k] = ValueAt(grid, k)

\* ---------------------------------------------------------------- C6

\* C6: on a board without blank cells the second run returns the board it
\* was given, cell for cell, and no state is taken from the frontier; so a
\* solved board fed back yields itself.
C6_SolvedInputUnchanged ==
    /\ (pc \in {"solve", "loop", "done"} /\ given # None /\ Blanks(given) = {}) =>
          /\ q = <<>> /\ popped = 0
          /\ pc # "loop"
          /\ pc = "done" => (outcome = "solved" /\ result = given)
    /\ (run = 2 /\ pc = "done") => (outcome = "solved" /\ result = first)

\* the second run ended, on the output of a first run that had to search
C6_Witness ==
    /\ run = 2 /\ pc = "done" /\ outcome = "solved"
    /\ result = first
    /\ first # parse_grid(grid)

\* ---------------------------------------------------------------- C7

\* the final states of __main__
Finished == pc = "done" /\ (run = 2 \/ outcome # "solved")

\* C7: every state appended to the frontier has exactly one blank cell fewer
\* than the state it was expanded from; solve() ends, with a board or with
\* None and an empty frontier.
C7_Terminates ==
    /\ [][(pc = "loop" /\ pc' = "loop" /\ q # <<>>) =>
             \A k \in Len(q)..Len(q') :
                 Cardinality(Blanks(q'[k].board))
                     = Cardinality(Blanks(Head(q).board)) - 1]_vars
    /\ [](pc = "done" /\ given # None =>
             \/ outcome = "solved" /\ result # None
             \/ outcome = "unsolvable" /\ result = None /\ q = <<>>)
    /\ (pc = "solve") ~> (pc = "done")
    /\ <>[]Finished

\* an expansion has appended two states
C7_Witness ==
    /\ pc = "loop" /\ popped > 0 /\ Len(q) >= 2
    /\ Cardinality(Blanks(q[Len(q)].board)) < Cardinality(Blanks(given))

\* ---------------------------------------------------------------- C8

\* the candidate mask of cell idx in state s
CandidatesAt(s, idx) == KeepNineBits(Used(s.row_used, s.col_used, s.box_used, idx))

\* some blank cell of s has no candidate
HasDeadCell(s) == \E i \in Blanks(s.board) : CandidatesAt(s, i) = 0

\* C8: whenever some blank cell of the state has an empty candidate set, the
\* cell choice returns a cell with the empty candidate mask.
C8_DeadEndReported ==
    \A k \in 1..Len(q) :
        HasDeadCell(q[k]) => (Chosen(q[k])[1] # -1 /\ Chosen(q[k])[2] = 0)

\* what the scan does report: a dead cell, unless a blank cell with exactly
\* one candidate precedes every dead cell
C8_DeadEndUnlessSingleBefore ==
    \A k \in 1..Len(q) :
        LET s == q[k]
            dead == {i \in Blanks(s.board) : CandidatesAt(s, i) = 0}
            single == {i \in Blanks(s.board) : bit_count(CandidatesAt(s, i)) = 1}
        IN  dead # {} =>
               IF \E i \in single : \A j \in dead : i < j
               THEN Chosen(s)[1] \in single /\ Chosen(s)[2] # 0
               ELSE Chosen(s)[1] \in dead /\ Chosen(s)[2] = 0

\* ---------------------------------------------------------------- C9

\* the digits of a mask
DigitsOf(mask) == {d \in 1..9 : (mask \div (2 ^ (d - 1))) % 2 = 1}

\* the digits of the assigned cells of a unit
Held(board, u) == {At(board, i) : i \in u} \ {0}

\* the constraint sets of s are those of its board
Exact(s) ==
    /\ \A r \in 0..8 : DigitsOf(At(s.row_used, r)) = Held(s.board, RowUnit(r))
    /\ \A c \in 0..8 : DigitsOf(At(s.col_used, c)) = Held(s.board, ColUnit(c))
    /\ \A a \in 0..2 : \A b \in 0..2 :
          DigitsOf(At(s.box_used, 3 * a + b)) = Held(s.board, BoxUnit(a, b))
    /\ \A r \in 0..8 : At(s.row_used, r) \in 0..511
    /\ \A c \in 0..8 : At(s.col_used, c) \in 0..511
    /\ \A b \in 0..8 : At(s.box_used, b) \in 0..511

\* C9: the constraint sets of every state in the frontier are exact for its
\* board, and no assigned value of its board is repeated in a row, column
\* or box.
C9_ConstraintSetsExact ==
    \A k \in 1..Len(q) : Exact(q[k]) /\ ~HasDuplicate(q[k].board)

\* successors of two expansions are in the frontier
C9_Witness ==
    /\ pc = "loop" /\ popped >= 2 /\ Len(q) >= 2
    /\ \A k \in 1..Len(q) : Exact(q[k])

\* ---------------------------------------------------------------- C10

\* depth-first backtracking with the same cell choice, the candidate digits
\* in ascending order: the first complete board, or None
RECURSIVE DepthFirst(_)
RECURSIVE DepthFirstFrom(_, _, _, _)
DepthFirst(s) ==
    LET sel == Chosen(s)
    IN  IF sel[1] = -1 THEN s.board
        ELSE IF sel[2] = 0 THEN None
        ELSE DepthFirstFrom(s, sel[1], sel[2], 1)

DepthFirstFrom(s, idx, cand_mask, d) ==
    IF d > 9 THEN None
    ELSE IF ~And1(cand_mask, bit(d)) THEN DepthFirstFrom(s, idx, cand_mask, d + 1)
    ELSE LET found == DepthFirst(Child(s, idx, d))
         IN  IF found # None THEN found
             ELSE DepthFirstFrom(s, idx, cand_mask, d + 1)

\* C10: solve() returns what the depth-first search returns from the same
\* initial state: the same board, or None alike.
C10_SameAsDepthFirst ==
    (pc = "done" /\ given # None /\ outcome \in {"solved", "unsolvable"}) =>
        result = DepthFirst(State(given, row_used, col_used, box_used))

\* solve() returned one solution while the frontier held another
C10_Witness ==
    /\ pc = "done" /\ outcome = "solved" /\ run = 1
    /\ \E k \in 1..Len(q) : Blanks(q[k].board) = {} /\ q[k].board # result
    /\ result = DepthFirst(State(given, row_used, col_used, box_used))

====
